---- MODULE Spec2Model ----
(***************************************************************************)
(* Model of awesomeapp.py: a Streamlit script that validates a used-car    *)
(* query, detects the number of result pages with a browser session,       *)
(* extracts the listings page by page, and caches each completed scrape in *)
(* a SQLite table plus a CSV file.                                         *)
(*                                                                         *)
(* Streamlit runs the whole script top to bottom once per UI event, so     *)
(* every action below is one complete script run.  Strings are sequences   *)
(* of one-character strings.                                               *)
(***************************************************************************)
EXTENDS Integers, Sequences, FiniteSets, TLC

VARIABLES
    brand,            \* st.text_input("Brand") widget value
    model,            \* st.text_input("Model") widget value
    max_mileage_str,  \* st.text_input("Max Mileage (km)") widget value
    max_mileage,      \* parse_int(max_mileage_str) of the last script run
    ready,            \* brand_ok and model_ok and miles_ok of the last run
    max_pages,        \* st.session_state.max_pages
    cache_checked,    \* st.session_state.cache_checked
    cache,            \* rows of the SQLite table "cache", in insertion order
    files,            \* names of the CSV files on disk
    now,              \* the wall clock, in seconds
    clicked,          \* the button whose press triggered the last run
    discovery,        \* get_max_pages in the last run: "none", "ok", "failed"
    session,          \* the browser session of that call: "none", "open", "quit"
    pages_to_scrape,  \* the value the last run's extraction loop ran to, or 0
    fetched,          \* outcomes of the scrape_url calls of the last run
    df,               \* the DataFrame the last run displayed
    cache_row,        \* the row cur.fetchone() returned in the last run
    load_button,      \* "Load cached results" was rendered by the last run
    cache_read,       \* pd.read_csv(prev_file) was called in the last run
    msgs,             \* st.info / warning / error / success of the last run
    pages_query       \* history: the query max_pages was last detected for

vars == <<brand, model, max_mileage_str, max_mileage, ready, max_pages,
          cache_checked, cache, files, now, clicked, discovery,
          session, pages_to_scrape, fetched, df, cache_row, load_button, cache_read, msgs,
          pages_query>>

\* ---------------------------------------------------------------- bounds
MaxLen == 3        \* longest mileage text tried against parse_int
MaxPages == 2      \* largest page label the pagination control shows
MaxPerPage == 2    \* most listings one extraction call returns
MaxRows == 2       \* most rows the cache table holds
ClockStart == 9    \* the clock at start-up
MaxClock == 10     \* the clock stops here

\* Python's optional values: None is the empty tuple, a value v is <<v>>
None == <<>>
Some(v) == <<v>>
Val(o) == o[1]

\* ------------------------------------------------------- Python strings
DigitChars == <<"0", "1", "2", "3", "4", "5", "6", "7", "8", "9">>

IsDigit(c) == \E i \in 1..10 : DigitChars[i] = c

DigitVal(c) == (CHOOSE i \in 1..10 : DigitChars[i] = c) - 1

IsSpace(c) == c = " "

RECURSIVE Remove(_, _)
\* str.replace(c, "")
Remove(s, c) ==
    IF s = <<>> THEN <<>>
    ELSE IF Head(s) = c THEN Remove(Tail(s), c)
    ELSE <<Head(s)>> \o Remove(Tail(s), c)

RECURSIVE LStrip(_)
LStrip(s) ==
    IF s # <<>> /\ IsSpace(Head(s)) THEN LStrip(Tail(s)) ELSE s

RECURSIVE RStrip(_)
RStrip(s) ==
    IF s # <<>> /\ IsSpace(s[Len(s)]) THEN RStrip(SubSeq(s, 1, Len(s) - 1)) ELSE s

\* str.strip()
Strip(s) == RStrip(LStrip(s))

RECURSIVE DigitsValue(_)
\* the decimal value of a run of digits
DigitsValue(s) ==
    IF s = <<>> THEN 0
    ELSE 10 * DigitsValue(SubSeq(s, 1, Len(s) - 1)) + DigitVal(s[Len(s)])

\* the digit groups int() accepts: digits, single underscores between digits
PyIntBody(s) ==
    /\ s # <<>>
    /\ \A i \in 1..Len(s) : IsDigit(s[i]) \/ s[i] = "_"
    /\ IsDigit(s[1])
    /\ IsDigit(s[Len(s)])
    /\ \A i \in 1..(Len(s) - 1) : ~(s[i] = "_" /\ s[i + 1] = "_")

\* int(s): surrounding whitespace and one sign are accepted; None stands for
\* ValueError
PyInt(s) ==
    LET t == Strip(s)
        signed == t # <<>> /\ Head(t) \in {"+", "-"}
        body == IF signed THEN Tail(t) ELSE t
        v == DigitsValue(Remove(body, "_"))
    IN  IF ~PyIntBody(body) THEN None
        ELSE IF signed /\ Head(t) = "-" THEN Some(0 - v)
        ELSE Some(v)

Max0(v) == IF v < 0 THEN 0 ELSE v

\* parse_int with "except ValueError: return 0": a failed parse reads as zero
parse_int_zero(s) ==
    LET t == Strip(Remove(s, ","))
    IN  IF t = <<>> THEN None
        ELSE IF PyInt(t) = None THEN Some(0)
        ELSE Some(Max0(Val(PyInt(t))))

parse_int(s) ==
    LET t == Strip(Remove(s, ","))
    IN  IF t = <<>> THEN None
        ELSE IF PyInt(t) = None THEN None
        ELSE Some(Max0(Val(PyInt(t))))

\* bool(s.strip())
NonBlank(s) == Strip(s) # <<>>

IsReady(b, m, s) == NonBlank(b) /\ NonBlank(m) /\ parse_int(s) # None

\* the hints of the else branch
Hints(b, m, s) ==
    IF IsReady(b, m, s) THEN {}
    ELSE (IF ~NonBlank(b) \/ ~NonBlank(m) THEN {"enter_brand_model"} ELSE {})
         \cup (IF parse_int(s) = None THEN {"enter_numeric_mileage"} ELSE {})

\* ------------------------------------------------------------ the inputs
BrandInputs == {<<>>, <<"a">>, <<"b">>}
ModelInputs == {<<>>, <<" ">>, <<"m">>}
MileageInputs == {<<>>, <<"1">>}

\* one widget changes per UI event
Edits ==
    {e \in BrandInputs \X ModelInputs \X MileageInputs :
        Cardinality({i \in 1..3 : e[i] # <<brand, model, max_mileage_str>>[i]}) <= 1}

\* lines 136-169: the widgets are read and the query validated
Validate(e) ==
    /\ brand' = e[1]
    /\ model' = e[2]
    /\ max_mileage_str' = e[3]
    /\ max_mileage' = parse_int(e[3])
    /\ ready' = IsReady(e[1], e[2], e[3])

Init ==
    /\ brand = <<>>
    /\ model = <<>>
    /\ max_mileage_str = <<>>
    /\ max_mileage = None
    /\ ready = FALSE
    /\ max_pages = None
    /\ cache_checked = FALSE
    /\ cache = <<>>
    /\ files = {}
    /\ now = ClockStart
    /\ clicked = "none"
    /\ discovery = "none"
    /\ session = "none"
    /\ pages_to_scrape = 0
    /\ fetched = <<>>
    /\ df = <<>>
    /\ cache_row = None
    /\ load_button = FALSE
    /\ cache_read = FALSE
    /\ msgs = Hints(<<>>, <<>>, <<>>)
    /\ pages_query = None

\* --------------------------------------------------- page-count discovery
\* where get_max_pages can raise: webdriver.Chrome() (line 63), driver.get()
\* (line 65), or one of the wait.until() calls outside a handler that catches
\* TimeoutException (lines 79, 81, 88, 115, 117, 124)
DiscoverySteps == {"none", "chrome", "get", "wait"}

\* the numeric labels the pagination control can show: none, a lone "0", or
\* the page numbers 1..k
PageLabels == {{}, {0}} \cup {1..k : k \in 1..MaxPages}

SetMax(S) == CHOOSE x \in S : \A y \in S : y <= x

\* get_max_pages: fail_at is the step that raises, labels the visible numeric
\* pagination items.  driver.quit() is the statement before the return and
\* nothing else quits the driver.
get_max_pages(fail_at, labels) ==
    IF fail_at = "chrome" THEN [ok |-> FALSE, pages |-> 0, session |-> "none"]
    ELSE IF fail_at # "none" THEN [ok |-> FALSE, pages |-> 0, session |-> "open"]
    ELSE [ok |-> TRUE,
          pages |-> IF labels # {} THEN SetMax(labels) ELSE 1,
          session |-> "quit"]

\* Python truthiness of st.session_state.max_pages
Truthy(o) == o # None /\ Val(o) # 0

\* ------------------------------------------------------------- the cache
RECURSIVE LexLeq(_, _)
\* a <= b as SQLite compares TEXT: character by character
LexLeq(a, b) ==
    IF a = <<>> THEN TRUE
    ELSE IF b = <<>> THEN FALSE
    ELSE IF Head(a) = Head(b) THEN LexLeq(Tail(a), Tail(b))
    ELSE DigitVal(Head(a)) < DigitVal(Head(b))

\* strftime without the zero padding ("%-S"): 9 formats as "9", 10 as "10"
strftime_unpadded(t) ==
    IF t < 10 THEN <<DigitChars[t + 1]>>
    ELSE <<DigitChars[((t \div 10) % 10) + 1], DigitChars[(t % 10) + 1]>>

\* timestamp.strftime("%Y-%m-%d_%H-%M-%S"): every field is zero-padded; the
\* clock of the model is the two-digit seconds field
strftime(t) == <<DigitChars[((t \div 10) % 10) + 1], DigitChars[(t % 10) + 1]>>

\* f"listings_{brand}_{model}_upto{max_mileage}_{ts}.csv"
FileName(b, m, mm, ts) == <<"listings", b, m, mm, ts>>

\* SELECT timestamp, filename FROM cache WHERE brand=? AND model=? AND
\* max_mileage=? ORDER BY timestamp DESC LIMIT 1: the rows fetchone() may return
CacheLookup(rows, b, m, mm) ==
    LET match == {i \in 1..Len(rows) :
                    /\ rows[i].brand = b
                    /\ rows[i].model = m
                    /\ rows[i].max_mileage = mm}
    IN  {rows[i] : i \in {k \in match :
                    \A j \in match : LexLeq(rows[j].timestamp, rows[k].timestamp)}}

\* what cur.fetchone() can return
FetchOne(rows, b, m, mm) ==
    IF CacheLookup(rows, b, m, mm) = {} THEN {None}
    ELSE {Some(r) : r \in CacheLookup(rows, b, m, mm)}

\* lines 208-215: the body of the "Load cached results" branch
LoadCached(prev_file) ==
    IF prev_file \in files THEN {"loaded", "download_cached"} ELSE {"load_failed"}

\* the try block without line 195: a failed detection keeps the old count
StoredPagesKeep(res, old) == IF res.ok THEN Some(res.pages) ELSE old

\* lines 190-195: st.session_state.max_pages after the try block
StoredPages(res, old) == IF res.ok THEN Some(res.pages) ELSE None

\* The event model: a button reads as pressed only in the run its own press
\* triggered, so "Load cached results" reads False in a run "Detect Pages"
\* triggered.
LoadClickedInDetectRun == {FALSE}

\* a run the "Detect Pages" button triggered (lines 183-217)
DetectRun(e, fail_at, labels, load_clicked) ==
    /\ ready                       \* the button was rendered enabled
    /\ Validate(e)
    /\ clicked' = "detect"
    /\ pages_to_scrape' = 0
    /\ fetched' = <<>>
    /\ df' = <<>>
    /\ UNCHANGED <<cache, files, now>>
    /\ IF ~IsReady(e[1], e[2], e[3])
       THEN /\ msgs' = Hints(e[1], e[2], e[3]) \cup {"warn_fill_inputs"}
            /\ discovery' = "none"
            /\ session' = "none"
            /\ cache_row' = None
            /\ load_button' = FALSE
            /\ cache_read' = FALSE
            /\ UNCHANGED <<max_pages, cache_checked, pages_query>>
       ELSE LET res == get_max_pages(fail_at, labels)
                mm == Val(parse_int(e[3]))
            IN  /\ discovery' = IF res.ok THEN "ok" ELSE "failed"
                /\ session' = res.session
                /\ max_pages' = StoredPages(res, max_pages)
                /\ pages_query' = IF res.ok THEN Some(<<e[1], e[2], mm>>)
                                  ELSE IF max_pages' = None THEN None
                                  ELSE pages_query
                /\ cache_checked' = TRUE
                /\ cache_row' \in FetchOne(cache, e[1], e[2], mm)
                /\ load_button' = (cache_row' # None)
                /\ cache_read' = (cache_row' # None /\ load_clicked)
                /\ msgs' = (IF res.ok THEN {"max_pages"} ELSE {"detect_failed"})
                           \cup (IF cache_row' # None THEN {"previous_run_found"}
                                 ELSE {"no_previous_results"})
                           \cup (IF cache_row' # None /\ load_clicked
                                 THEN LoadCached(Val(cache_row').filename)
                                 ELSE {})

\* a run the "Load cached results" button triggered.  The button is created
\* at line 207, inside the "if detect_clicked:" block of line 184;
\* detect_clicked is False in this run, so the block is skipped.
LoadRun(e) ==
    /\ load_button                 \* the button was rendered
    /\ Validate(e)
    /\ clicked' = "load"
    /\ discovery' = "none"
    /\ session' = "none"
    /\ pages_to_scrape' = 0
    /\ fetched' = <<>>
    /\ df' = <<>>
    /\ cache_row' = None
    /\ load_button' = FALSE
    /\ cache_read' = FALSE
    /\ msgs' = Hints(e[1], e[2], e[3])
    /\ UNCHANGED <<max_pages, cache_checked, cache, files, now, pages_query>>

\* ------------------------------------------------------------ extraction
Listings == {"r1", "r2"}

SeqsUpTo(S, k) == UNION {[1..i -> S] : i \in 0..k}

\* app.scrape_url raised
Fail == [ok |-> FALSE, listings |-> <<>>]

\* what one app.scrape_url call can do: raise, or return result.extract with
\* up to k listings drawn from S
PageOutcomes(S, k) ==
    {Fail} \cup {[ok |-> TRUE, listings |-> l] : l \in SeqsUpTo(S, k)}

\* lines 220-227: the values the "Pages to scrape" control can hold
PagesToScrape(mp) == IF Truthy(mp) THEN 1..Val(mp) ELSE {1}

RECURSIVE ScrapeLoopContinue(_, _, _, _, _)
\* the loop with "continue" in place of st.stop(): a failed page is skipped
ScrapeLoopContinue(outcomes, page, n, calls, all_listings) ==
    IF page > n
    THEN [stopped |-> FALSE, fetched |-> calls, all_listings |-> all_listings]
    ELSE IF ~outcomes[page].ok
    THEN ScrapeLoopContinue(outcomes, page + 1, n, Append(calls, outcomes[page]),
                            all_listings)
    ELSE ScrapeLoopContinue(outcomes, page + 1, n, Append(calls, outcomes[page]),
                            all_listings \o outcomes[page].listings)

RECURSIVE ScrapeLoopPrepend(_, _, _, _, _)
\* the loop with "all_listings = listings + all_listings": newest page first
ScrapeLoopPrepend(outcomes, page, n, calls, all_listings) ==
    IF page > n
    THEN [stopped |-> FALSE, fetched |-> calls, all_listings |-> all_listings]
    ELSE IF ~outcomes[page].ok
    THEN [stopped |-> TRUE, fetched |-> Append(calls, outcomes[page]),
          all_listings |-> all_listings]
    ELSE ScrapeLoopPrepend(outcomes, page + 1, n, Append(calls, outcomes[page]),
                           outcomes[page].listings \o all_listings)

RECURSIVE ScrapeLoop(_, _, _, _, _)
\* lines 242-258: for page in range(1, pages_to_scrape+1); a raising call
\* ends the run (st.stop()), a returning one extends all_listings
ScrapeLoop(outcomes, page, n, calls, all_listings) ==
    IF page > n
    THEN [stopped |-> FALSE, fetched |-> calls, all_listings |-> all_listings]
    ELSE IF ~outcomes[page].ok
    THEN [stopped |-> TRUE, fetched |-> Append(calls, outcomes[page]),
          all_listings |-> all_listings]
    ELSE ScrapeLoop(outcomes, page + 1, n, Append(calls, outcomes[page]),
                    all_listings \o outcomes[page].listings)

\* lines 262-263 and 267: pd.DataFrame(all_listings), the shared timestamp
\* column and the "No." column range(1, len(df)+1)
DataFrame(all_listings, t) ==
    [i \in 1..Len(all_listings) |->
        [No |-> i, listing |-> all_listings[i], timestamp |-> t]]

\* lines 274-277: the inserted row; min_mileage is not given and stays NULL
CacheRow(b, m, mm, ts, fn) ==
    [brand |-> b, model |-> m, min_mileage |-> None, max_mileage |-> mm,
     timestamp |-> ts, filename |-> fn]

\* "len(df.columns) == 0" in place of df.empty: never true once line 263 has
\* added the timestamp column
DfEmptyByColumns(all_listings) == FALSE

\* line 264: df.empty, true of a frame without rows whatever its columns
DfEmpty(all_listings) == all_listings = <<>>

\* the guards without lines 233-235: only the page count is checked
SearchGuardPagesOnly(r, mp) ==
    IF ~Truthy(mp) THEN "warn_detect_first" ELSE "go"

\* lines 233-238: the guards behind the "Srape Now" button
SearchGuard(r, mp) ==
    IF ~r THEN "warn_fill_inputs"
    ELSE IF ~Truthy(mp) THEN "warn_detect_first"
    ELSE "go"

\* a run the "Srape Now" button triggered (lines 219-278): n is the value of
\* "Pages to scrape", outcomes what each scrape_url call does, t the clock
\* datetime.now() reads
SearchRun(e, n, outcomes, t) ==
    /\ ready /\ Truthy(max_pages)  \* the button was rendered enabled
    /\ Len(cache) < MaxRows
    /\ Validate(e)
    /\ clicked' = "search"
    /\ discovery' = "none"
    /\ session' = "none"
    /\ cache_row' = None
    /\ load_button' = FALSE
    /\ cache_read' = FALSE
    /\ UNCHANGED <<max_pages, cache_checked, pages_query>>
    /\ LET guard == SearchGuard(IsReady(e[1], e[2], e[3]), max_pages)
           run == ScrapeLoop(outcomes, 1, n, <<>>, <<>>)
           mm == Val(parse_int(e[3]))
           ts == strftime(t)
           fn == FileName(e[1], e[2], mm, ts)
       IN  IF guard # "go"
           THEN /\ msgs' = Hints(e[1], e[2], e[3]) \cup {guard}
                /\ pages_to_scrape' = 0
                /\ fetched' = <<>>
                /\ df' = <<>>
                /\ UNCHANGED <<cache, files, now>>
           ELSE IF parse_int(e[3]) = None
           THEN \* line 241: format(None, ",") raises TypeError
                /\ msgs' = Hints(e[1], e[2], e[3]) \cup {"exception"}
                /\ pages_to_scrape' = 0
                /\ fetched' = <<>>
                /\ df' = <<>>
                /\ UNCHANGED <<cache, files, now>>
           ELSE IF run.stopped
           THEN /\ msgs' = {"scraping", "firecrawl_failed"}
                /\ pages_to_scrape' = n
                /\ fetched' = run.fetched
                /\ df' = <<>>
                /\ UNCHANGED <<cache, files, now>>
           ELSE IF DfEmpty(run.all_listings)
           THEN /\ msgs' = {"scraping", "no_listings"}
                /\ pages_to_scrape' = n
                /\ fetched' = run.fetched
                /\ df' = <<>>
                /\ now' = t
                /\ UNCHANGED <<cache, files>>
           ELSE /\ msgs' = {"scraping", "download_csv"}
                /\ pages_to_scrape' = n
                /\ fetched' = run.fetched
                /\ df' = DataFrame(run.all_listings, t)
                /\ now' = t
                /\ files' = files \cup {fn}
                /\ cache' = Append(cache, CacheRow(e[1], e[2], mm, ts, fn))

\* a run no button press triggered: an edited widget
Rerun(e) ==
    /\ Validate(e)
    /\ clicked' = "none"
    /\ discovery' = "none"
    /\ session' = "none"
    /\ pages_to_scrape' = 0
    /\ fetched' = <<>>
    /\ df' = <<>>
    /\ cache_row' = None
    /\ load_button' = FALSE
    /\ cache_read' = FALSE
    /\ msgs' = Hints(e[1], e[2], e[3])
    /\ UNCHANGED <<max_pages, cache_checked, cache, files, now, pages_query>>

\* the listings of the workflow specification: what matters to the workflow
\* is whether a page fails, is empty or holds listings
UIPageOutcomes == {Fail, [ok |-> TRUE, listings |-> <<>>],
                   [ok |-> TRUE, listings |-> <<"r1">>]}

Next ==
    \/ \E e \in Edits : Rerun(e)
    \/ \E e \in Edits, fail_at \in DiscoverySteps, labels \in PageLabels,
          load_clicked \in LoadClickedInDetectRun :
            DetectRun(e, fail_at, labels, load_clicked)
    \/ \E e \in Edits : LoadRun(e)
    \/ \E e \in Edits, n \in PagesToScrape(max_pages), t \in now..MaxClock :
          \E outcomes \in [1..n -> UIPageOutcomes] :
            SearchRun(e, n, outcomes, t)

Spec == Init /\ [][Next]_vars

\* ------------------------------------------- the validator on its own
\* the characters typed into the mileage box
MileageChars == {"0", "1", "2", ",", " ", "-", "+", "_", "x"}
MileageTexts == SeqsUpTo(MileageChars, MaxLen)
ParseBrandInputs == {<<>>, <<" ">>, <<"a">>}
ParseModelInputs == {<<>>, <<"m">>}

\* the mileage box is filled in from empty, or cleared, while brand and
\* model are edited freely; each edit is one script run
ParseNext ==
    \/ /\ max_mileage_str = <<>>
       /\ \E s \in MileageTexts : Rerun(<<brand, model, s>>)
    \/ \E b \in ParseBrandInputs, m \in ParseModelInputs : Rerun(<<b, m, <<>>>>)

SpecParse == Init /\ [][ParseNext]_vars

\* ------------------------------------------ the aggregator on its own
\* The states after "Detect Pages" found some number of pages for the query
\* (a, m, 1), nothing being cached yet.
InitAgg ==
    /\ brand = <<"a">>
    /\ model = <<"m">>
    /\ max_mileage_str = <<"1">>
    /\ max_mileage = Some(1)
    /\ ready = TRUE
    /\ max_pages \in {Some(k) : k \in 1..MaxPages}
    /\ cache_checked = TRUE
    /\ cache = <<>>
    /\ files = {}
    /\ now \in ClockStart..MaxClock
    /\ clicked = "detect"
    /\ discovery = "ok"
    /\ session = "quit"
    /\ pages_to_scrape = 0
    /\ fetched = <<>>
    /\ df = <<>>
    /\ cache_row = None
    /\ load_button = FALSE
    /\ cache_read = FALSE
    /\ msgs = {"max_pages", "no_previous_results"}
    /\ pages_query = Some(<<brand, model, 1>>)

\* the first press of "Srape Now" after the detection, the inputs unchanged,
\* every page returning any list of up to MaxPerPage listings or raising
AggNext ==
    /\ clicked = "detect"
    /\ \E n \in PagesToScrape(max_pages) :
         \E outcomes \in [1..n -> PageOutcomes(Listings, MaxPerPage)] :
            SearchRun(<<brand, model, max_mileage_str>>, n, outcomes, now)

SpecAgg == InitAgg /\ [][AggNext]_vars

\* ================================================================ claims
\* the query of the last run is valid
InputReady == NonBlank(brand) /\ NonBlank(model) /\ max_mileage # None

\* the last run entered the extraction loop
LoopEntered == fetched # <<>>

\* the last run fetched every requested page
AllFetched ==
    /\ pages_to_scrape >= 1
    /\ Len(fetched) = pages_to_scrape
    /\ \A i \in 1..Len(fetched) : fetched[i].ok

\* an extraction call of the last run failed
SomeFailed == \E i \in 1..Len(fetched) : ~fetched[i].ok

RECURSIVE Concat(_)
\* L1 ++ L2 ++ ... ++ LN
Concat(pages) ==
    IF pages = <<>> THEN <<>> ELSE Head(pages).listings \o Concat(Tail(pages))

\* C1: page-count discovery is only invoked while the input is ready, and the
\* extraction loop is only entered while the input is ready and
\* st.session_state.max_pages holds a positive integer.
C1_OnlyWhenReady ==
    /\ discovery # "none" => InputReady
    /\ LoopEntered => (InputReady /\ max_pages # None /\ Val(max_pages) >= 1)

C1_Witness ==
    /\ clicked = "search"
    /\ LoopEntered
    /\ InputReady
    /\ Truthy(max_pages)

\* C2: a scrape run in which an extraction call fails displays no ResultSet,
\* writes no CSV file and inserts no cache row, however many earlier pages
\* succeeded: files and cache are what they were before the run.
C2_FailedRunWritesNothing ==
    [][(clicked' = "search" /\ SomeFailed')
        => (df' = <<>> /\ files' = files /\ cache' = cache
            /\ "download_csv" \notin msgs')]_vars

C2_Witness ==
    /\ clicked = "search"
    /\ Len(fetched) = 2
    /\ fetched[1].ok
    /\ fetched[1].listings # <<>>
    /\ ~fetched[2].ok
    /\ df = <<>>

\* C3: after a get_max_pages call has returned or raised, the browser session
\* it opened is not left open.
C3_SessionQuitOnEveryExit == discovery # "none" => session # "open"

\* the decimal reading of a timestamp
TsValue(ts) == DigitsValue(ts)

\* the rows inserted for the query of the last run
RowsOfQuery ==
    {i \in 1..Len(cache) :
        /\ cache[i].brand = brand
        /\ cache[i].model = model
        /\ cache[i].max_mileage = Val(max_mileage)}

\* the cache lookup of a detection run returned the latest row of its query,
\* and none iff the query has no row
C4_LookupLatest ==
    (clicked = "detect" /\ discovery # "none") =>
        /\ (cache_row = None) <=> (RowsOfQuery = {})
        /\ cache_row # None =>
            /\ \E i \in RowsOfQuery : cache[i] = Val(cache_row)
            /\ \A j \in RowsOfQuery :
                  TsValue(cache[j].timestamp) <= TsValue(Val(cache_row).timestamp)

\* C4: a cache lookup returns the entry with the greatest timestamp among the
\* entries inserted for exactly its (brand, model, maxMileage), none iff there
\* is no such entry, and an insert never updates or deletes earlier entries.
C4_LatestEntryWins ==
    /\ []C4_LookupLatest
    /\ [][/\ Len(cache') >= Len(cache)
          /\ SubSeq(cache', 1, Len(cache)) = cache]_vars

C4_Witness ==
    /\ clicked = "detect"
    /\ cache_row # None
    /\ \E i, j \in RowsOfQuery :
          TsValue(cache[i].timestamp) < TsValue(cache[j].timestamp)

\* C5: when every page of a run is fetched, the ResultSet lists the records
\* in the order L1 ++ ... ++ LN and its "No." column is 1..len(L1 ++ ... ++ LN).
C5_AggregateInOrder ==
    (clicked = "search" /\ AllFetched) =>
        /\ Len(df) = Len(Concat(fetched))
        /\ \A i \in 1..Len(df) :
              /\ df[i].listing = Concat(fetched)[i]
              /\ df[i].No = i

C5_Witness ==
    /\ clicked = "search"
    /\ AllFetched
    /\ Len(fetched) = 2
    /\ fetched[1].listings = <<"r2", "r1">>
    /\ fetched[2].listings = <<"r1">>
    /\ Len(df) = 3

\* a text of digits and thousands separators with at least one digit
DigitsAndSeparators(s) ==
    /\ \A i \in 1..Len(s) : IsDigit(s[i]) \/ s[i] = ","
    /\ \E i \in 1..Len(s) : IsDigit(s[i])

\* a text that denotes a number: an optional sign before digits and
\* thousands separators, whitespace around it
Numeric(s) ==
    LET t == Strip(s)
        body == IF t # <<>> /\ Head(t) \in {"+", "-"} THEN Tail(t) ELSE t
    IN  DigitsAndSeparators(body)

\* a text int() reads as a number once the commas are gone: as Numeric, and
\* single underscores may stand between two digits
NumericOrUnderscored(s) ==
    LET t == Strip(SelectSeq(s, LAMBDA c : c # ","))
        body == IF t # <<>> /\ Head(t) \in {"+", "-"} THEN Tail(t) ELSE t
    IN  /\ body # <<>>
        /\ \A i \in 1..Len(body) :
              \/ IsDigit(body[i])
              \/ /\ body[i] = "_"
                 /\ 1 < i /\ i < Len(body)
                 /\ IsDigit(body[i - 1]) /\ IsDigit(body[i + 1])

\* a text of digits and separators parses to its digits
C6_DigitsParse ==
    DigitsAndSeparators(max_mileage_str) =>
        max_mileage = Some(DigitsValue(SelectSeq(max_mileage_str, IsDigit)))

\* a parsed mileage is never negative
C6_NonNegative == max_mileage # None => Val(max_mileage) >= 0

\* C6 as stated: digits and separators parse to the digits; every non-numeric
\* or empty text is invalid, never zero, and not ready; results are
\* non-negative.
C6_ParseInt ==
    /\ C6_DigitsParse
    /\ ~Numeric(max_mileage_str) => (max_mileage = None /\ ~ready)
    /\ C6_NonNegative

\* C6 amended: as C6, the texts that are invalid being those int() does not
\* read as a number, which leaves out digits joined by single underscores.
C6_ParseIntUnderscores ==
    /\ C6_DigitsParse
    /\ ~NumericOrUnderscored(max_mileage_str) => (max_mileage = None /\ ~ready)
    /\ C6_NonNegative

C6_Witness ==
    /\ NonBlank(brand)
    /\ NonBlank(model)
    /\ max_mileage_str = <<"1", " ", "2">>
    /\ max_mileage = None
    /\ ~ready

\* C7: a run that fetches every page and gets no record signals "no results"
\* and writes neither a CSV file nor a cache row; a CSV file and a cache row
\* are written only by a run that fetched every page and got a record.
C7_EmptyRunWritesNothing ==
    /\ []((clicked = "search" /\ AllFetched /\ Concat(fetched) = <<>>)
            => ("no_listings" \in msgs /\ df = <<>>))
    /\ [][(clicked' = "search" /\ AllFetched' /\ Concat(fetched') = <<>>)
            => (files' = files /\ cache' = cache)]_vars
    /\ [][(files' # files \/ cache' # cache)
            => (clicked' = "search" /\ AllFetched' /\ Concat(fetched') # <<>>)]_vars

C7_Witness ==
    /\ clicked = "search"
    /\ pages_to_scrape = 2
    /\ AllFetched
    /\ Concat(fetched) = <<>>
    /\ "no_listings" \in msgs

\* C8: a failed discovery leaves the page count unknown, and while it is
\* unknown no run enters the extraction loop; only a successful discovery
\* makes it known again.
C8_FailedDiscoveryResets ==
    /\ [](discovery = "failed" => max_pages = None)
    /\ [][max_pages = None
            => (~LoopEntered' /\ (max_pages' # None => discovery' = "ok"))]_vars

\* a discovery fails after an earlier one succeeded: a scrape has completed
C8_Witness ==
    /\ discovery = "failed"
    /\ max_pages = None
    /\ cache # <<>>

\* C9: the run a press of "Load cached results" triggers reads the cached
\* CSV and shows its rows or reports the load failure.
C9_LoadButtonLoads ==
    clicked = "load" => (cache_read /\ msgs \cap {"loaded", "load_failed"} # {})

\* C10: the page count that enables and bounds an extraction loop was
\* detected for the query being scraped.
C10_PagesOfScrapedQuery ==
    LoopEntered => pages_query = Some(<<brand, model, Val(max_mileage)>>)
====
